---------------------------- MODULE Spec2Model ----------------------------
(***************************************************************************)
(* Model of the mock QDMI v1.2.1 device                                    *)
(* (crates/arvak-qdmi/examples/mock_device/mock_device.c) and of the host  *)
(* call pattern of its test harness (test_harness.c).                      *)
(*                                                                         *)
(* Memory is modelled at byte granularity.  A pointer argument is a record *)
(* [null, mem]: mem is the sequence of cells it points to.  A cell holds a *)
(* byte 0..255, or Untouched when the callee has not written it since the  *)
(* host passed the pointer in.  The ABI is LP64, little endian.            *)
(* Calls are synchronous: a handler runs from call to return in one step   *)
(* and leaves a record of the call in `last`; the host then takes the      *)
(* result (host_return) before it issues the next call.                    *)
(*                                                                         *)
(* Specifications: Spec (lifecycle and queries), SpecDevice (the device    *)
(* lifecycle with its calls counted), SpecJob (the job interface with the  *)
(* jobs' parameters and the payload heap), SpecHarness (main of the test   *)
(* harness, on any library), SpecThreads (device_initialize and            *)
(* device_finalize called from several threads), SpecSession (the session  *)
(* lifecycle with the session's parameters), SpecEntry (Spec and the two   *)
(* set-parameter entry points on a null handle), SpecHelper (the host's    *)
(* two-phase helper on the device query), SpecProgram (the program of a    *)
(* job, set by a host that may pass a null pointer).                       *)
(***************************************************************************)
EXTENDS Integers, Sequences, FiniteSets

(* ----------------------------- bounds --------------------------------- *)
\* device_initialize is not called while the count has this value
MaxRefcount == 2
\* session records the heap can hold at a time
MaxSessions == 1
\* job records the heap can hold at a time
MaxJobs == 1
\* device_initialize / device_finalize calls counted by SpecDevice
MaxCalls == 4
\* program payload blocks the heap can hold at a time
MaxPayloads == 2
\* sites, and operations, a library reports to the harness at most
MaxIterations == 1
\* threads that call device_initialize and device_finalize at a time
NumThreads == 2
\* calls each of the threads makes
MaxThreadCalls == 2

(* ------------------------- QDMI status codes -------------------------- *)
QDMI_SUCCESS == 0
QDMI_ERROR_OUTOFMEM == -2
QDMI_ERROR_INVALIDARGUMENT == -7
QDMI_ERROR_NOTSUPPORTED == -9
QDMI_ERROR_BADSTATE == -10
QDMI_ERROR_TIMEOUT == -11

(* --------------------------- property keys ---------------------------- *)
QDMI_DEVICE_PROPERTY_NAME == 0
QDMI_DEVICE_PROPERTY_VERSION == 1
QDMI_DEVICE_PROPERTY_STATUS == 2
QDMI_DEVICE_PROPERTY_LIBRARYVERSION == 3
QDMI_DEVICE_PROPERTY_QUBITSNUM == 4
QDMI_DEVICE_PROPERTY_SITES == 5
QDMI_DEVICE_PROPERTY_OPERATIONS == 6
QDMI_DEVICE_PROPERTY_COUPLINGMAP == 7
QDMI_DEVICE_PROPERTY_DURATIONUNIT == 12
QDMI_DEVICE_PROPERTY_DURATIONSCALEFACTOR == 13
QDMI_DEVICE_PROPERTY_SUPPORTEDPROGRAMFORMATS == 15

QDMI_SITE_PROPERTY_INDEX == 0
QDMI_SITE_PROPERTY_T1 == 1
QDMI_SITE_PROPERTY_T2 == 2
QDMI_SITE_PROPERTY_NAME == 3

QDMI_OPERATION_PROPERTY_NAME == 0
QDMI_OPERATION_PROPERTY_QUBITSNUM == 1
QDMI_OPERATION_PROPERTY_PARAMETERSNUM == 2
QDMI_OPERATION_PROPERTY_DURATION == 3
QDMI_OPERATION_PROPERTY_FIDELITY == 4

QDMI_DEVICE_STATUS_IDLE == 1

QDMI_JOB_STATUS_CREATED == 0
QDMI_JOB_STATUS_SUBMITTED == 1
QDMI_JOB_STATUS_DONE == 4

QDMI_PROGRAM_FORMAT_QASM2 == 0
QDMI_PROGRAM_FORMAT_QASM3 == 1

QDMI_DEVICE_SESSION_PARAMETER_BASEURL == 0
QDMI_DEVICE_SESSION_PARAMETER_TOKEN == 1

QDMI_DEVICE_JOB_PARAMETER_PROGRAMFORMAT == 0
QDMI_DEVICE_JOB_PARAMETER_PROGRAM == 1
QDMI_DEVICE_JOB_PARAMETER_SHOTSNUM == 2

QDMI_DEVICE_JOB_PROPERTY_ID == 0

QDMI_JOB_RESULT_HISTKEYS == 1
QDMI_JOB_RESULT_HISTVALUES == 2

\* the key the harness uses as an unsupported one (test_harness.c:290)
UNSUPPORTED_KEY == 999

(* ------------------------------ ABI ----------------------------------- *)
\* sizeof(size_t), sizeof(uintptr_t), sizeof(uint64_t), sizeof(double)
SIZEOF_WORD == 8
\* sizeof(int32_t)
SIZEOF_INT32 == 4
\* sizeof(s->token), sizeof(s->baseurl)
SIZEOF_TEXT == 256

RECURSIVE LE(_, _)
\* the `n`-byte little-endian object representation of the unsigned value v
LE(v, n) == IF n = 0 THEN <<>> ELSE <<v % 256>> \o LE(v \div 256, n - 1)

RECURSIVE Flatten(_)
\* the object representation of an array: its elements' bytes, in order
Flatten(ss) == IF ss = <<>> THEN <<>> ELSE Head(ss) \o Flatten(Tail(ss))

\* an array of 8-byte words
Words(vs) == Flatten([i \in 1..Len(vs) |-> LE(vs[i], SIZEOF_WORD)])

(* ------------------------- mock device data --------------------------- *)
NUM_QUBITS == 5
NUM_OPERATIONS == 3
NUM_COUPLING_PAIRS == 8

\* 0x1000 .. 0x1004
SITES == <<4096, 4097, 4098, 4099, 4100>>

\* variant with the fault of a last edge stored twice in one direction
COUPLING_MAP_one_way == <<4096, 4097, 4097, 4096, 4097, 4098, 4098, 4097, 4098, 4099, 4099, 4098, 4099, 4100, 4099, 4100>>

COUPLING_MAP == <<4096, 4097, 4097, 4096, 4097, 4098, 4098, 4097, 4098, 4099, 4099, 4098, 4099, 4100, 4100, 4099>>

\* 0x2000 .. 0x2002
OPERATIONS == <<8192, 8193, 8194>>

\* "h", "cx", "rz", each with its terminator
OP_NAMES == << <<104, 0>>, <<99, 120, 0>>, <<114, 122, 0>> >>
OP_QUBITS == <<1, 2, 1>>
OP_PARAMS == <<0, 0, 1>>
\* the IEEE-754 binary64 bytes of 0.999, 0.98, 0.9995
OP_FIDELITIES == << <<43, 135, 22, 217, 206, 247, 239, 63>>, <<92, 143, 194, 245, 40, 92, 239, 63>>, <<150, 67, 139, 108, 231, 251, 239, 63>> >>
OP_DURATIONS == <<30, 300, 20>>

SITE_T1 == <<100000, 95000, 110000, 90000, 105000>>
SITE_T2 == <<50000, 48000, 55000, 45000, 52000>>

SUPPORTED_FORMATS == <<QDMI_PROGRAM_FORMAT_QASM2, QDMI_PROGRAM_FORMAT_QASM3>>

\* the IEEE-754 binary64 bytes of 1e-9
DURATION_SCALE_FACTOR == <<149, 214, 38, 232, 11, 46, 17, 62>>

\* "Arvak Mock Device (5Q Linear)" with its terminator: strlen + 1 = 30
DEVICE_NAME == <<65, 114, 118, 97, 107, 32, 77, 111, 99, 107, 32, 68, 101, 118, 105, 99, 101, 32, 40, 53, 81, 32, 76, 105, 110, 101, 97, 114, 41, 0>>

\* "0.1.0" with its terminator
DEVICE_VERSION == <<48, 46, 49, 46, 48, 0>>

\* "mock-job-001" with its terminator
JOB_ID == <<109, 111, 99, 107, 45, 106, 111, 98, 45, 48, 48, 49, 0>>

\* The array of the literal "00000\011111\0".  \011 is one octal escape (a
\* TAB), so the array is 00000, TAB, 111, NUL and the literal's own NUL: 11
\* bytes, one fewer than the keys_len the handler passes on.
HIST_KEYS == <<48, 48, 48, 48, 48, 9, 49, 49, 49, 0, 0>>
HIST_KEYS_LEN == 12

\* size_t counts[2] = { 512, 512 }
HIST_COUNTS == <<512, 512>>

\* default shot count of a new job
DEFAULT_SHOTS == 1024

(* ------------------------------ memory -------------------------------- *)
\* a cell the callee has not written; no byte has this value
Untouched == 0 - 1

NullPtr == [null |-> TRUE, mem |-> <<>>]

\* a pointer to n cells of host memory, handed to the callee
Fresh(n) == [null |-> FALSE, mem |-> [i \in 1..n |-> Untouched]]

\* *p = v, for p pointing to one object
Store(p, v) == [null |-> FALSE, mem |-> <<v>>]

\* Bytes a read past the end of a source object may yield: the read is
\* undefined behaviour and takes whatever lies behind the object.
OobBytes == {0, 255}

\* memcpy(dst, src, n); `oob` is the byte read behind the end of src
memcpy(dst, src, n, oob) == [null |-> FALSE, mem |-> [i \in 1..Len(dst.mem) |-> IF i <= n THEN (IF i <= Len(src) THEN src[i] ELSE oob) ELSE dst.mem[i]]]


\* strlen(s): the number of bytes before the first terminator
strlen(s) == (CHOOSE i \in 1..Len(s) : s[i] = 0 /\ \A j \in 1..(i - 1) : s[j] # 0) - 1

\* the value of the little-endian object representation `bytes`
RECURSIVE FromLE(_)
FromLE(bytes) == IF bytes = <<>> THEN 0 ELSE Head(bytes) + 256 * FromLE(Tail(bytes))

(* ------------------------------ state --------------------------------- *)
VARIABLES
  \* static int device_init_refcount
  device_init_refcount,
  \* the MockSession records of the heap, by handle
  sessions,
  \* the MockJob records of the heap, by handle
  jobs,
  \* the blocks malloc hands out for program payloads, by address
  payloads,
  \* the call that has just returned and what it returned, or NoCall
  last,
  \* history: device_initialize calls so far (counted in SpecDevice)
  inits,
  \* history: device_finalize calls so far (counted in SpecDevice)
  finals,
  \* history: some device_finalize was called while the count was zero
  finalized_at_zero,
  \* history: per job, the status its latest submit left it in, or Untouched
  submit_left,
  \* the test harness process: its position in main and its locals
  harness,
  \* the threads that call device_initialize and device_finalize at a time:
  \* per thread its position in the call and the value it has loaded
  threads

counters == <<inits, finals, finalized_at_zero>>
vars == <<device_init_refcount, sessions, jobs, payloads, last, inits, finals, finalized_at_zero, submit_left, harness, threads>>

\* the null handle
NULL == 0

SessionHandles == 1..MaxSessions
JobHandles == 1..MaxJobs
PayloadHandles == 1..MaxPayloads

\* a slot of the heap that holds no session
NoSession == [live |-> FALSE, active |-> 0, token |-> <<>>, baseurl |-> <<>>]

\* calloc(1, sizeof(MockSession)): every field zero.  token and baseurl are
\* the bytes of the two arrays up to the last byte written so far; the bytes
\* after them are the zeros calloc left, so both hold the empty string
MockSession == [live |-> TRUE, active |-> 0, token |-> <<>>, baseurl |-> <<>>]

\* a slot of the heap that holds no job
NoJob == [live |-> FALSE, status |-> 0, program_format |-> 0, program |-> NULL, shots |-> 0]

\* calloc(1, sizeof(MockJob)): every field zero, program a null pointer
MockJob == [live |-> TRUE, status |-> 0, program_format |-> 0, program |-> NULL, shots |-> 0]

\* a block of the heap that is not allocated
NoPayload == [state |-> "free", mem |-> <<>>]

LiveSessions == {s \in SessionHandles : sessions[s].live}
LiveJobs == {j \in JobHandles : jobs[j].live}

NoCall == [op |-> "none"]

\* the five function pointers of the harness, in the order it resolves them
Pointers == <<"init_fn", "deinit_fn", "dev_fn", "site_fn", "op_fn">>

ThreadIds == 1..NumThreads

\* a thread that is in no call
Outside == [pc |-> "outside", reg |-> 0, calls |-> 0, initializes |-> 0, decrements |-> 0]

\* the harness at the entry of main, before it has loaded a library
NotLoaded == [pc |-> "dlopen", exports |-> {}, fns |-> [f \in {Pointers[i] : i \in 1..Len(Pointers)} |-> [null |-> TRUE, sym |-> ""]], failed |-> FALSE, k |-> 0, phase |-> "none", num_ops |-> 0, num_sites |-> 0, iter |-> 0, null_call |-> "none", exit_code |-> 0]

\* the host is between two calls
Idle == last.op = "none"

Init ==
  /\ device_init_refcount = 0
  /\ sessions = [s \in SessionHandles |-> NoSession]
  /\ jobs = [j \in JobHandles |-> NoJob]
  /\ payloads = [b \in PayloadHandles |-> NoPayload]
  /\ last = NoCall
  /\ inits = 0
  /\ finals = 0
  /\ finalized_at_zero = FALSE
  /\ submit_left = [j \in JobHandles |-> Untouched]
  /\ harness = NotLoaded
  /\ threads = [t \in ThreadIds |-> Outside]

\* the call did not return: the process faulted in it
Faulted == last.op = "job_set_parameter" /\ last.ret = Untouched

\* the host takes the results of the call that returned; the harness does so
\* after every call before it issues the next one
host_return ==
  /\ ~Idle
  /\ ~Faulted
  /\ last' = NoCall
  /\ UNCHANGED <<device_init_refcount, sessions, jobs, payloads>>

(* ------------------- helper: two-phase query buffer ------------------- *)
\* variant with the fault `value == NULL` alone: a zero size is no probe
IsSizeProbe_null_only(size, value) == value.null

\* Phase 1: size == 0 || value == NULL
IsSizeProbe(size, value) == size = 0 \/ value.null

\* variant with the fault of no size check before the copy
BufferTooSmall_unchecked(size, src_size) == FALSE

\* size < src_size
BufferTooSmall(size, src_size) == size < src_size

\* variant with the fault memcpy(value, src, size): the buffer's size copied
CopyLength_whole_buffer(size, src_size) == size

\* the number of bytes write_property copies into the buffer
CopyLength(size, src_size) == src_size

\* what a query hands back: the status, and the two output objects as left
Returned(ret, value, size_ret) == [ret |-> ret, value |-> value, size_ret |-> size_ret]

\* if (size_ret) *size_ret = src_size
ReportSize(size_ret, src_size) == IF size_ret.null THEN size_ret ELSE Store(size_ret, src_size)

\* variant with the fault of a write_property that reports the size only
\* when it succeeds
write_property_silent_failure(src, src_size, size, value, size_ret, oob) ==
  IF IsSizeProbe(size, value) THEN Returned(QDMI_SUCCESS, value, ReportSize(size_ret, src_size))
  ELSE IF BufferTooSmall(size, src_size) THEN Returned(QDMI_ERROR_INVALIDARGUMENT, value, size_ret)
  ELSE Returned(QDMI_SUCCESS, memcpy(value, src, CopyLength(size, src_size), oob), ReportSize(size_ret, src_size))

write_property(src, src_size, size, value, size_ret, oob) ==
  IF IsSizeProbe(size, value) THEN Returned(QDMI_SUCCESS, value, ReportSize(size_ret, src_size))
  ELSE IF BufferTooSmall(size, src_size) THEN Returned(QDMI_ERROR_INVALIDARGUMENT, value, ReportSize(size_ret, src_size))
  ELSE Returned(QDMI_SUCCESS, memcpy(value, src, CopyLength(size, src_size), oob), ReportSize(size_ret, src_size))

(* -------------------------- device lifecycle -------------------------- *)
\* device_init_refcount++
RefcountAfterInitialize(rc) == rc + 1

\* variant with the fault of an unguarded device_init_refcount--
RefcountAfterFinalize_unclamped(rc) == rc - 1

\* variant with the fault `> 1` for `> 0`: the last reference is never dropped
RefcountAfterFinalize_keeps_one(rc) == IF rc > 1 THEN rc - 1 ELSE rc

\* if (device_init_refcount > 0) device_init_refcount--
RefcountAfterFinalize(rc) == IF rc > 0 THEN rc - 1 ELSE rc

MOCK_QDMI_device_initialize ==
  /\ Idle
  /\ device_init_refcount < MaxRefcount
  /\ device_init_refcount' = RefcountAfterInitialize(device_init_refcount)
  /\ last' = [op |-> "device_initialize", ret |-> QDMI_SUCCESS, refcount_before |-> device_init_refcount]
  /\ UNCHANGED <<sessions, jobs, payloads>>

MOCK_QDMI_device_finalize ==
  /\ Idle
  /\ device_init_refcount' = RefcountAfterFinalize(device_init_refcount)
  /\ last' = [op |-> "device_finalize", ret |-> QDMI_SUCCESS, refcount_before |-> device_init_refcount]
  /\ UNCHANGED <<sessions, jobs, payloads>>

(* ------------------------- session lifecycle -------------------------- *)
\* variant with the fault `< 0` for `<= 0`
DeviceNotInitialized_negative(rc) == rc < 0

\* device_init_refcount <= 0
DeviceNotInitialized(rc) == rc <= 0

\* What calloc can return: a slot holding no record, or NULL.
CallocSession == {s \in SessionHandles : ~sessions[s].live} \cup {NULL}

\* variant with the fault of a session_alloc that tests the count before it
\* tests its output slot
SessionAllocStatus_count_first(session_out, s) ==
  IF DeviceNotInitialized(device_init_refcount) THEN QDMI_ERROR_BADSTATE
  ELSE IF session_out.null THEN QDMI_ERROR_INVALIDARGUMENT
  ELSE IF s = NULL THEN QDMI_ERROR_OUTOFMEM
  ELSE QDMI_SUCCESS

\* the status session_alloc returns when calloc returned s
SessionAllocStatus(session_out, s) ==
  IF session_out.null THEN QDMI_ERROR_INVALIDARGUMENT
  ELSE IF DeviceNotInitialized(device_init_refcount) THEN QDMI_ERROR_BADSTATE
  ELSE IF s = NULL THEN QDMI_ERROR_OUTOFMEM
  ELSE QDMI_SUCCESS

MOCK_QDMI_device_session_alloc ==
  /\ Idle
  /\ \E session_out \in {NullPtr, Fresh(1)}, s \in CallocSession :
       LET ret == SessionAllocStatus(session_out, s)
           called == ~session_out.null /\ ~DeviceNotInitialized(device_init_refcount)
       IN  /\ sessions' = IF ret = QDMI_SUCCESS THEN [sessions EXCEPT ![s] = MockSession] ELSE sessions
           /\ last' = [op |-> "session_alloc", ret |-> ret,
                       session_out |-> IF ret = QDMI_SUCCESS THEN Store(session_out, s) ELSE session_out,
                       refcount |-> device_init_refcount,
                       calloc_failed |-> called /\ s = NULL,
                       live_before |-> LiveSessions]
  /\ UNCHANGED <<device_init_refcount, jobs, payloads>>

MOCK_QDMI_device_session_init ==
  /\ Idle
  /\ \E session \in LiveSessions \cup {NULL} :
       IF session = NULL
       THEN /\ last' = [op |-> "session_init", session |-> session, ret |-> QDMI_ERROR_INVALIDARGUMENT]
            /\ UNCHANGED sessions
       ELSE /\ sessions' = [sessions EXCEPT ![session].active = 1]
            /\ last' = [op |-> "session_init", session |-> session, ret |-> QDMI_SUCCESS]
  /\ UNCHANGED <<device_init_refcount, jobs, payloads>>

MOCK_QDMI_device_session_free ==
  /\ Idle
  /\ \E session \in LiveSessions \cup {NULL} :
       /\ sessions' = IF session = NULL THEN sessions ELSE [sessions EXCEPT ![session] = NoSession]
       /\ last' = [op |-> "session_free", session |-> session]
  /\ UNCHANGED <<device_init_refcount, jobs, payloads>>

\* the byte at index i (from 0) of an array of a session
ByteAt(text, i) == IF i < Len(text) THEN text[i + 1] ELSE 0

\* text[i] = b, i from 0: the array with one byte assigned
Assign(text, i, b) == [k \in 1..(IF i < Len(text) THEN Len(text) ELSE i + 1) |-> IF k = i + 1 THEN b ELSE ByteAt(text, k - 1)]

\* memcpy(text, value, size); text[size] = '\0'
StoreText(text, value, size) ==
  Assign([k \in 1..(IF size < Len(text) THEN Len(text) ELSE size) |-> IF k <= size THEN value.mem[k] ELSE text[k]], size, 0)

\* variant with the fault of a bound that admits a value as long as the
\* array
Storable_inclusive(size, value) == ~value.null /\ size > 0 /\ size <= SIZEOF_TEXT

\* value && size > 0 && size < sizeof(s->token)
Storable(size, value) == ~value.null /\ size > 0 /\ size < SIZEOF_TEXT

\* what session_set_parameter leaves: its status and the sessions
SessionParameterized(ret, ss) == [ret |-> ret, sessions |-> ss]

session_set_parameter(session, param, size, value) ==
  IF session = NULL THEN SessionParameterized(QDMI_ERROR_INVALIDARGUMENT, sessions)
  ELSE CASE param = QDMI_DEVICE_SESSION_PARAMETER_TOKEN ->
              SessionParameterized(QDMI_SUCCESS, IF Storable(size, value) THEN [sessions EXCEPT ![session].token = StoreText(@, value, size)] ELSE sessions)
         [] param = QDMI_DEVICE_SESSION_PARAMETER_BASEURL ->
              SessionParameterized(QDMI_SUCCESS, IF Storable(size, value) THEN [sessions EXCEPT ![session].baseurl = StoreText(@, value, size)] ELSE sessions)
         [] OTHER -> SessionParameterized(QDMI_ERROR_NOTSUPPORTED, sessions)

\* a text of n bytes, none of them zero: "xx...x"
Text(n) == [k \in 1..n |-> 120]

\* the texts the host sets: "a", the longest that fits with its terminator,
\* and one byte more than that
SessionTexts == {<<97>>, Text(SIZEOF_TEXT - 1), Text(SIZEOF_TEXT)}

\* The (param, size, value) the host passes to session_set_parameter: a
\* text with its length for the token or the base URL, also with a size of
\* zero and with a null value, and a parameter the device does not know.
SessionParameterArgs ==
  {[param |-> k, size |-> Len(t), value |-> [null |-> FALSE, mem |-> t]] : k \in {QDMI_DEVICE_SESSION_PARAMETER_TOKEN, QDMI_DEVICE_SESSION_PARAMETER_BASEURL}, t \in SessionTexts}
  \cup {[param |-> k, size |-> 0, value |-> [null |-> FALSE, mem |-> <<97>>]] : k \in {QDMI_DEVICE_SESSION_PARAMETER_TOKEN, QDMI_DEVICE_SESSION_PARAMETER_BASEURL}}
  \cup {[param |-> k, size |-> 1, value |-> NullPtr] : k \in {QDMI_DEVICE_SESSION_PARAMETER_TOKEN, QDMI_DEVICE_SESSION_PARAMETER_BASEURL}}
  \cup {[param |-> UNSUPPORTED_KEY, size |-> 1, value |-> [null |-> FALSE, mem |-> <<97>>]]}

\* a call of session_set_parameter with one of `handles`
SessionSetParameterOn(handles) ==
  /\ Idle
  /\ \E session \in handles, a \in SessionParameterArgs :
       LET r == session_set_parameter(session, a.param, a.size, a.value)
       IN  /\ sessions' = r.sessions
           /\ last' = [op |-> "session_set_parameter", session |-> session, param |-> a.param, size |-> a.size, value |-> a.value,
                       ret |-> r.ret, session_before |-> IF session = NULL THEN NoSession ELSE sessions[session]]
  /\ UNCHANGED <<device_init_refcount, jobs, payloads>>

MOCK_QDMI_device_session_set_parameter == SessionSetParameterOn(LiveSessions \cup {NULL})

\* the call with a null session
SessionSetParameterOnNull == SessionSetParameterOn({NULL})

(* --------------------------- query interface -------------------------- *)
\* a source object handed to write_property, with the size passed for it
Value(src, src_size) == [supported |-> TRUE, src |-> src, src_size |-> src_size]

\* variant with the fault of a default: branch that answers with an empty
\* value
NotSupported_empty_value == [supported |-> TRUE, src |-> <<>>, src_size |-> 0]

\* the default: branch of a property switch
NotSupported == [supported |-> FALSE, src |-> <<>>, src_size |-> 0]

\* site_index(site): the position of the token in SITES, from 0, or -1
site_index(site) == IF \E i \in 1..NUM_QUBITS : SITES[i] = site THEN (CHOOSE i \in 1..NUM_QUBITS : SITES[i] = site) - 1 ELSE 0 - 1

\* op_index(op): the position of the token in OPERATIONS, from 0, or -1
op_index(op) == IF \E i \in 1..NUM_OPERATIONS : OPERATIONS[i] = op THEN (CHOOSE i \in 1..NUM_OPERATIONS : OPERATIONS[i] = op) - 1 ELSE 0 - 1

\* variant with the fault of no active check
SessionInactive_unchecked(s) == FALSE

\* !s->active
SessionInactive(s) == s.active = 0

\* switch (prop) of query_device_property
DeviceProperty(prop) ==
  CASE prop = QDMI_DEVICE_PROPERTY_NAME -> Value(DEVICE_NAME, strlen(DEVICE_NAME) + 1)
    [] prop = QDMI_DEVICE_PROPERTY_VERSION -> Value(DEVICE_VERSION, strlen(DEVICE_VERSION) + 1)
    [] prop = QDMI_DEVICE_PROPERTY_STATUS -> Value(LE(QDMI_DEVICE_STATUS_IDLE, SIZEOF_INT32), SIZEOF_INT32)
    [] prop = QDMI_DEVICE_PROPERTY_QUBITSNUM -> Value(LE(NUM_QUBITS, SIZEOF_WORD), SIZEOF_WORD)
    [] prop = QDMI_DEVICE_PROPERTY_SITES -> Value(Words(SITES), SIZEOF_WORD * NUM_QUBITS)
    [] prop = QDMI_DEVICE_PROPERTY_COUPLINGMAP -> Value(Words(COUPLING_MAP), SIZEOF_WORD * NUM_COUPLING_PAIRS * 2)
    [] prop = QDMI_DEVICE_PROPERTY_OPERATIONS -> Value(Words(OPERATIONS), SIZEOF_WORD * NUM_OPERATIONS)
    [] prop = QDMI_DEVICE_PROPERTY_DURATIONSCALEFACTOR -> Value(DURATION_SCALE_FACTOR, SIZEOF_WORD)
    [] prop = QDMI_DEVICE_PROPERTY_SUPPORTEDPROGRAMFORMATS -> Value(Flatten([i \in 1..Len(SUPPORTED_FORMATS) |-> LE(SUPPORTED_FORMATS[i], SIZEOF_INT32)]), SIZEOF_INT32 * Len(SUPPORTED_FORMATS))
    [] OTHER -> NotSupported

\* switch (prop) of query_site_property, for the site at index idx (from 0)
SiteProperty(idx, prop) ==
  CASE prop = QDMI_SITE_PROPERTY_INDEX -> Value(LE(idx, SIZEOF_WORD), SIZEOF_WORD)
    [] prop = QDMI_SITE_PROPERTY_T1 -> Value(LE(SITE_T1[idx + 1], SIZEOF_WORD), SIZEOF_WORD)
    [] prop = QDMI_SITE_PROPERTY_T2 -> Value(LE(SITE_T2[idx + 1], SIZEOF_WORD), SIZEOF_WORD)
    [] OTHER -> NotSupported

\* switch (prop) of query_operation_property, for the operation at index idx
OperationProperty(idx, prop) ==
  CASE prop = QDMI_OPERATION_PROPERTY_NAME -> Value(OP_NAMES[idx + 1], strlen(OP_NAMES[idx + 1]) + 1)
    [] prop = QDMI_OPERATION_PROPERTY_QUBITSNUM -> Value(LE(OP_QUBITS[idx + 1], SIZEOF_WORD), SIZEOF_WORD)
    [] prop = QDMI_OPERATION_PROPERTY_PARAMETERSNUM -> Value(LE(OP_PARAMS[idx + 1], SIZEOF_WORD), SIZEOF_WORD)
    [] prop = QDMI_OPERATION_PROPERTY_DURATION -> Value(LE(OP_DURATIONS[idx + 1], SIZEOF_WORD), SIZEOF_WORD)
    [] prop = QDMI_OPERATION_PROPERTY_FIDELITY -> Value(OP_FIDELITIES[idx + 1], SIZEOF_WORD)
    [] OTHER -> NotSupported

\* switch (prop) of job_query_property
JobProperty(prop) ==
  CASE prop = QDMI_DEVICE_JOB_PROPERTY_ID -> Value(JOB_ID, strlen(JOB_ID) + 1)
    [] OTHER -> NotSupported

\* switch (result_type) of job_get_results
JobResult(result_type) ==
  CASE result_type = QDMI_JOB_RESULT_HISTKEYS -> Value(HIST_KEYS, HIST_KEYS_LEN)
    [] result_type = QDMI_JOB_RESULT_HISTVALUES -> Value(Words(HIST_COUNTS), SIZEOF_WORD * Len(HIST_COUNTS))
    [] OTHER -> NotSupported

\* a case of a property switch: the write_property call, or the default
Answer(v, size, value, size_ret, oob) ==
  IF v.supported THEN write_property(v.src, v.src_size, size, value, size_ret, oob)
  ELSE Returned(QDMI_ERROR_NOTSUPPORTED, value, size_ret)

query_device_property(session, prop, size, value, size_ret, oob) ==
  IF session = NULL THEN Returned(QDMI_ERROR_INVALIDARGUMENT, value, size_ret)
  ELSE IF SessionInactive(sessions[session]) THEN Returned(QDMI_ERROR_BADSTATE, value, size_ret)
  ELSE Answer(DeviceProperty(prop), size, value, size_ret, oob)

query_site_property(session, site, prop, size, value, size_ret, oob) ==
  IF session = NULL THEN Returned(QDMI_ERROR_INVALIDARGUMENT, value, size_ret)
  ELSE IF site_index(site) < 0 THEN Returned(QDMI_ERROR_INVALIDARGUMENT, value, size_ret)
  ELSE Answer(SiteProperty(site_index(site), prop), size, value, size_ret, oob)

\* num_sites, sites, num_params and params are unused by the handler
query_operation_property(session, operation, prop, size, value, size_ret, oob) ==
  IF session = NULL THEN Returned(QDMI_ERROR_INVALIDARGUMENT, value, size_ret)
  ELSE IF op_index(operation) < 0 THEN Returned(QDMI_ERROR_INVALIDARGUMENT, value, size_ret)
  ELSE Answer(OperationProperty(op_index(operation), prop), size, value, size_ret, oob)

job_query_property(job, prop, size, value, size_ret, oob) ==
  IF job = NULL THEN Returned(QDMI_ERROR_INVALIDARGUMENT, value, size_ret)
  ELSE Answer(JobProperty(prop), size, value, size_ret, oob)

job_get_results(job, result_type, size, value, size_ret, oob) ==
  IF job = NULL THEN Returned(QDMI_ERROR_INVALIDARGUMENT, value, size_ret)
  ELSE Answer(JobResult(result_type), size, value, size_ret, oob)

\* the five query entry points
QueryOps == {"query_device_property", "query_site_property", "query_operation_property", "job_query_property", "job_get_results"}

\* the entry point `op` called on handle h with token tok (a site or an
\* operation; unused by the other entry points) and key `key`
Query(op, h, tok, key, size, value, size_ret, oob) ==
  CASE op = "query_device_property" -> query_device_property(h, key, size, value, size_ret, oob)
    [] op = "query_site_property" -> query_site_property(h, tok, key, size, value, size_ret, oob)
    [] op = "query_operation_property" -> query_operation_property(h, tok, key, size, value, size_ret, oob)
    [] op = "job_query_property" -> job_query_property(h, key, size, value, size_ret, oob)
    [] op = "job_get_results" -> job_get_results(h, key, size, value, size_ret, oob)

\* the value a query is about (its true size is what the host sizes its
\* buffers around), whatever the state of the handle
Queried(op, tok, key) ==
  CASE op = "query_device_property" -> DeviceProperty(key)
    [] op = "query_site_property" -> IF site_index(tok) < 0 THEN NotSupported ELSE SiteProperty(site_index(tok), key)
    [] op = "query_operation_property" -> IF op_index(tok) < 0 THEN NotSupported ELSE OperationProperty(op_index(tok), key)
    [] op = "job_query_property" -> JobProperty(key)
    [] op = "job_get_results" -> JobResult(key)

(* ------------------------ the host's arguments ------------------------ *)
\* The keys and tokens the host passes: every key the handler knows, the
\* keys of the QDMI enumeration it does not answer, and one foreign key.
DeviceKeys == {QDMI_DEVICE_PROPERTY_NAME, QDMI_DEVICE_PROPERTY_VERSION, QDMI_DEVICE_PROPERTY_STATUS, QDMI_DEVICE_PROPERTY_LIBRARYVERSION, QDMI_DEVICE_PROPERTY_QUBITSNUM, QDMI_DEVICE_PROPERTY_SITES, QDMI_DEVICE_PROPERTY_OPERATIONS, QDMI_DEVICE_PROPERTY_COUPLINGMAP, QDMI_DEVICE_PROPERTY_DURATIONUNIT, QDMI_DEVICE_PROPERTY_DURATIONSCALEFACTOR, QDMI_DEVICE_PROPERTY_SUPPORTEDPROGRAMFORMATS, UNSUPPORTED_KEY}
SiteKeys == {QDMI_SITE_PROPERTY_INDEX, QDMI_SITE_PROPERTY_T1, QDMI_SITE_PROPERTY_T2, QDMI_SITE_PROPERTY_NAME}
OperationKeys == {QDMI_OPERATION_PROPERTY_NAME, QDMI_OPERATION_PROPERTY_QUBITSNUM, QDMI_OPERATION_PROPERTY_PARAMETERSNUM, QDMI_OPERATION_PROPERTY_DURATION, QDMI_OPERATION_PROPERTY_FIDELITY, UNSUPPORTED_KEY}
JobKeys == {QDMI_DEVICE_JOB_PROPERTY_ID, UNSUPPORTED_KEY}
ResultKeys == {QDMI_JOB_RESULT_HISTKEYS, QDMI_JOB_RESULT_HISTVALUES, UNSUPPORTED_KEY}

\* every site token the device reports, and a token that is none of them
SiteTokens == {SITES[i] : i \in 1..NUM_QUBITS} \cup {NULL}
\* every operation token the device reports, and a token that is none of them
OperationTokens == {OPERATIONS[i] : i \in 1..NUM_OPERATIONS} \cup {NULL}

\* The (size, value, size_ret) a host passes for a value of `n` bytes: a
\* null buffer, or a buffer of exactly `size` bytes (of one byte when size
\* is 0), with size 0, one byte short, or exact; size_ret null or not.
QueryArgs(n) ==
  {[size |-> sz, value |-> NullPtr, size_ret |-> sr] : sz \in {0, n}, sr \in {NullPtr, Fresh(1)}}
  \cup {[size |-> sz, value |-> Fresh(IF sz = 0 THEN 1 ELSE sz), size_ret |-> sr] : sz \in {0, n - 1, n}, sr \in {NullPtr, Fresh(1)}}

\* the size a host sizes its buffer around: the value's, or a word when the
\* query has no value
HostSize(v) == IF v.supported THEN v.src_size ELSE SIZEOF_WORD

\* the bytes that may lie behind the source object, when the copy reads them
Behind(v) == IF v.src_size > Len(v.src) THEN OobBytes ELSE {0}

\* the record of a query call: its arguments, and the outputs as left
QueryCall(op, h, tok, key, a, oob, needed) ==
  LET r == Query(op, h, tok, key, a.size, a.value, a.size_ret, oob)
  IN  [op |-> op, h |-> h, tok |-> tok, key |-> key, size |-> a.size,
       value |-> r.value, size_ret |-> r.size_ret, ret |-> r.ret, needed |-> needed]

\* a query call by the host, with any of its argument shapes
HostQuery(op, handles, tokens, keys) ==
  /\ Idle
  /\ \E h \in handles, tok \in tokens, key \in keys :
       \E a \in QueryArgs(HostSize(Queried(op, tok, key))), oob \in Behind(Queried(op, tok, key)) :
         last' = QueryCall(op, h, tok, key, a, oob, Untouched)
  /\ UNCHANGED <<device_init_refcount, sessions, jobs, payloads>>

MOCK_QDMI_device_session_query_device_property ==
  HostQuery("query_device_property", LiveSessions \cup {NULL}, {NULL}, DeviceKeys)

MOCK_QDMI_device_session_query_site_property ==
  HostQuery("query_site_property", LiveSessions \cup {NULL}, SiteTokens, SiteKeys)

MOCK_QDMI_device_session_query_operation_property ==
  HostQuery("query_operation_property", LiveSessions \cup {NULL}, OperationTokens, OperationKeys)

MOCK_QDMI_device_job_query_property ==
  HostQuery("job_query_property", LiveJobs \cup {NULL}, {NULL}, JobKeys)

MOCK_QDMI_device_job_get_results ==
  HostQuery("job_get_results", LiveJobs \cup {NULL}, {NULL}, ResultKeys)

\* the last call was a size probe that told the host the size
ProbeAnswered == last.op \in QueryOps /\ last.ret = QDMI_SUCCESS /\ IsSizeProbe(last.size, last.value) /\ ~last.size_ret.null

\* Phase 2 of the host's two-phase query: after a probe reported `needed`,
\* the same query again with a buffer of that size, or of one byte more.
host_phase2 ==
  /\ ProbeAnswered
  /\ \E more \in {0, 1}, sr \in {NullPtr, Fresh(1)}, oob \in Behind(Queried(last.op, last.tok, last.key)) :
       LET needed == last.size_ret.mem[1]
           a == [size |-> needed + more, value |-> Fresh(needed + more), size_ret |-> sr]
       IN  last' = QueryCall(last.op, last.h, last.tok, last.key, a, oob, needed)
  /\ UNCHANGED <<device_init_refcount, sessions, jobs, payloads>>

(* ------------------------------- heap --------------------------------- *)
\* malloc(n): what it can return, a block that is not allocated, or NULL
malloc(heap) == {b \in PayloadHandles : heap[b].state = "free"} \cup {NULL}

\* free(p), p not null.  Freeing a block that is not allocated is undefined
\* behaviour; the heap is marked corrupt at that block.
free(heap, p) == [heap EXCEPT ![p] = IF @.state = "live" THEN NoPayload ELSE [state |-> "corrupt", mem |-> <<>>]]

\* the blocks that are allocated
LivePayloads == {b \in PayloadHandles : payloads[b].state = "live"}

(* ---------------------------- job interface --------------------------- *)
\* What calloc can return: a slot holding no record, or NULL.
CallocJob == {j \in JobHandles : ~jobs[j].live} \cup {NULL}

MOCK_QDMI_device_session_create_device_job ==
  /\ Idle
  /\ \E session \in LiveSessions \cup {NULL}, job_out \in {NullPtr, Fresh(1)}, j \in CallocJob :
       LET called == session # NULL /\ ~job_out.null
           ret == IF ~called THEN QDMI_ERROR_INVALIDARGUMENT ELSE IF j = NULL THEN QDMI_ERROR_OUTOFMEM ELSE QDMI_SUCCESS
       IN  /\ jobs' = IF ret = QDMI_SUCCESS THEN [jobs EXCEPT ![j] = [MockJob EXCEPT !.status = QDMI_JOB_STATUS_CREATED, !.shots = DEFAULT_SHOTS]] ELSE jobs
           /\ last' = [op |-> "create_device_job", session |-> session, ret |-> ret,
                       job_out |-> IF ret = QDMI_SUCCESS THEN Store(job_out, j) ELSE job_out,
                       calloc_failed |-> called /\ j = NULL,
                       live_before |-> LiveJobs]
  /\ UNCHANGED <<device_init_refcount, sessions, payloads>>

\* the status of the job behind a handle, for the call record
StatusOf(job) == IF job = NULL THEN Untouched ELSE jobs[job].status

\* variant with the fault of a program set-parameter that drops the pointer
\* to the previous copy without freeing it
ReleasePrevious_leaks(heap, program) == heap

\* if (j->program) free(j->program), of job_set_parameter
ReleasePrevious(heap, program) == IF program # NULL THEN free(heap, program) ELSE heap

\* what job_set_parameter leaves: its status, the jobs and the heap
Parameterized(ret, js, heap) == [ret |-> ret, jobs |-> js, payloads |-> heap]

\* case QDMI_DEVICE_JOB_PARAMETER_PROGRAMFORMAT
SetProgramFormat(job, size, value) ==
  IF ~value.null /\ size >= SIZEOF_INT32
  THEN Parameterized(QDMI_SUCCESS, [jobs EXCEPT ![job].program_format = FromLE(SubSeq(value.mem, 1, SIZEOF_INT32))], payloads)
  ELSE Parameterized(QDMI_SUCCESS, jobs, payloads)

\* memcpy(j->program, value, size) reads `size` bytes behind value
ReadsNull(size, value) == value.null /\ size > 0

\* What the copy of the program can do.  With a null value and a size that
\* is not zero it reads through a null pointer, which is undefined
\* behaviour: the process faults at the read, or the read yields bytes that
\* are not the host's.  Any other copy has one outcome.
CopyOutcomes(param, size, value) ==
  IF param = QDMI_DEVICE_JOB_PARAMETER_PROGRAM /\ ReadsNull(size, value)
  THEN {[fault |-> TRUE, oob |-> 0]} \cup {[fault |-> FALSE, oob |-> o] : o \in OobBytes}
  ELSE {[fault |-> FALSE, oob |-> 0]}

\* case QDMI_DEVICE_JOB_PARAMETER_PROGRAM; b is what malloc(size + 1)
\* returned and u what the copy does.  A call that faults does not return:
\* it leaves the block as malloc returned it, and no status.
SetProgram(job, size, value, b, u) ==
  LET released == ReleasePrevious(payloads, jobs[job].program)
  IN  IF b = NULL
      THEN Parameterized(QDMI_ERROR_OUTOFMEM, [jobs EXCEPT ![job].program = NULL], released)
      ELSE IF u.fault
      THEN Parameterized(Untouched, [jobs EXCEPT ![job].program = b],
                         [released EXCEPT ![b] = [state |-> "live", mem |-> Fresh(size + 1).mem]])
      ELSE Parameterized(QDMI_SUCCESS, [jobs EXCEPT ![job].program = b],
                         [released EXCEPT ![b] = [state |-> "live", mem |-> [i \in 1..size |-> IF value.null THEN u.oob ELSE value.mem[i]] \o <<0>>]])

\* case QDMI_DEVICE_JOB_PARAMETER_SHOTSNUM
SetShots(job, size, value) ==
  IF ~value.null /\ size >= SIZEOF_WORD
  THEN Parameterized(QDMI_SUCCESS, [jobs EXCEPT ![job].shots = FromLE(SubSeq(value.mem, 1, SIZEOF_WORD))], payloads)
  ELSE Parameterized(QDMI_SUCCESS, jobs, payloads)

job_set_parameter(job, param, size, value, b, u) ==
  IF job = NULL THEN Parameterized(QDMI_ERROR_INVALIDARGUMENT, jobs, payloads)
  ELSE CASE param = QDMI_DEVICE_JOB_PARAMETER_PROGRAMFORMAT -> SetProgramFormat(job, size, value)
         [] param = QDMI_DEVICE_JOB_PARAMETER_PROGRAM -> SetProgram(job, size, value, b, u)
         [] param = QDMI_DEVICE_JOB_PARAMETER_SHOTSNUM -> SetShots(job, size, value)
         [] OTHER -> Parameterized(QDMI_ERROR_NOTSUPPORTED, jobs, payloads)

\* a pointer to an object of the host that holds `bytes`
Holding(bytes) == [null |-> FALSE, mem |-> bytes]

\* the program texts the host sets: "OP"
Programs == {<<79, 80>>}

\* the shot counts the host sets
ShotCounts == {1}

\* The (param, size, value) the host passes to job_set_parameter: a format,
\* a shot count (each also with a null value, and with a size of zero), a
\* program text with its length, and a parameter the device does not know.
JobParameterArgs ==
  {[param |-> QDMI_DEVICE_JOB_PARAMETER_PROGRAMFORMAT, size |-> SIZEOF_INT32, value |-> Holding(LE(f, SIZEOF_INT32))] : f \in {QDMI_PROGRAM_FORMAT_QASM2, QDMI_PROGRAM_FORMAT_QASM3}}
  \cup {[param |-> QDMI_DEVICE_JOB_PARAMETER_SHOTSNUM, size |-> SIZEOF_WORD, value |-> Holding(LE(n, SIZEOF_WORD))] : n \in ShotCounts}
  \cup {[param |-> k, size |-> SIZEOF_WORD, value |-> NullPtr] : k \in {QDMI_DEVICE_JOB_PARAMETER_PROGRAMFORMAT, QDMI_DEVICE_JOB_PARAMETER_SHOTSNUM}}
  \cup {[param |-> k, size |-> 0, value |-> Holding(LE(1, SIZEOF_WORD))] : k \in {QDMI_DEVICE_JOB_PARAMETER_PROGRAMFORMAT, QDMI_DEVICE_JOB_PARAMETER_SHOTSNUM}}
  \cup {[param |-> QDMI_DEVICE_JOB_PARAMETER_PROGRAM, size |-> Len(p), value |-> Holding(p)] : p \in Programs}
  \cup {[param |-> UNSUPPORTED_KEY, size |-> SIZEOF_WORD, value |-> Holding(LE(1, SIZEOF_WORD))]}

\* The (param, size, value) of a host that sets the program alone: a text
\* with its length, and a null pointer with a length.
ProgramArgs ==
  {[param |-> QDMI_DEVICE_JOB_PARAMETER_PROGRAM, size |-> Len(p), value |-> Holding(p)] : p \in Programs}
  \cup {[param |-> QDMI_DEVICE_JOB_PARAMETER_PROGRAM, size |-> Len(p), value |-> NullPtr] : p \in Programs}

\* what malloc can return to the call: the program case alone calls it,
\* after it has released the previous copy
MallocReturns(job, param) ==
  IF job # NULL /\ param = QDMI_DEVICE_JOB_PARAMETER_PROGRAM
  THEN malloc(ReleasePrevious(payloads, jobs[job].program))
  ELSE {NULL}

\* a call of job_set_parameter with one of `handles` and one of `args`
JobSetParameterOn(handles, args) ==
  /\ Idle
  /\ \E job \in handles, a \in args :
       \E b \in MallocReturns(job, a.param), u \in CopyOutcomes(a.param, a.size, a.value) :
         LET r == job_set_parameter(job, a.param, a.size, a.value, b, u)
         IN  /\ jobs' = r.jobs
             /\ payloads' = r.payloads
             /\ last' = [op |-> "job_set_parameter", job |-> job, param |-> a.param, size |-> a.size, value |-> a.value,
                         ret |-> r.ret, status_before |-> StatusOf(job), job_before |-> IF job = NULL THEN NoJob ELSE jobs[job],
                         payloads_before |-> payloads]
  /\ UNCHANGED <<device_init_refcount, sessions>>

MOCK_QDMI_device_job_set_parameter == JobSetParameterOn(LiveJobs \cup {NULL}, JobParameterArgs)

\* the call with a null job
JobSetParameterOnNull == JobSetParameterOn({NULL}, JobParameterArgs)

\* the call that sets the program of a job
JobSetProgram == JobSetParameterOn(LiveJobs, ProgramArgs)

\* variant with the fault of a submit that does not set the status
StatusAfterSubmit_unset(status) == status

\* j->status = QDMI_JOB_STATUS_SUBMITTED; j->status = QDMI_JOB_STATUS_DONE
StatusAfterSubmit(status) == QDMI_JOB_STATUS_DONE

MOCK_QDMI_device_job_submit ==
  /\ Idle
  /\ \E job \in LiveJobs \cup {NULL} :
       IF job = NULL
       THEN /\ last' = [op |-> "job_submit", job |-> job, ret |-> QDMI_ERROR_INVALIDARGUMENT, status_before |-> StatusOf(job)]
            /\ UNCHANGED jobs
       ELSE /\ jobs' = [jobs EXCEPT ![job].status = StatusAfterSubmit(jobs[job].status)]
            /\ last' = [op |-> "job_submit", job |-> job, ret |-> QDMI_SUCCESS, status_before |-> StatusOf(job)]
  /\ UNCHANGED <<device_init_refcount, sessions, payloads>>

\* variant with the fault of a cancel that puts the job back to CREATED
StatusAfterCancel_resets(status) == QDMI_JOB_STATUS_CREATED

\* "Mock: just succeed": cancel assigns nothing to j->status
StatusAfterCancel(status) == status

MOCK_QDMI_device_job_cancel ==
  /\ Idle
  /\ \E job \in LiveJobs \cup {NULL} :
       /\ jobs' = IF job = NULL THEN jobs ELSE [jobs EXCEPT ![job].status = StatusAfterCancel(jobs[job].status)]
       /\ last' = [op |-> "job_cancel", job |-> job, ret |-> IF job = NULL THEN QDMI_ERROR_INVALIDARGUMENT ELSE QDMI_SUCCESS, status_before |-> StatusOf(job)]
  /\ UNCHANGED <<device_init_refcount, sessions, payloads>>

\* variant with the fault of a check that reports the status the job was
\* created with
StatusReported_stale(j) == QDMI_JOB_STATUS_CREATED

\* *status = j->status
StatusReported(j) == j.status

MOCK_QDMI_device_job_check ==
  /\ Idle
  /\ \E job \in LiveJobs \cup {NULL}, status \in {NullPtr, Fresh(1)} :
       IF job = NULL \/ status.null
       THEN last' = [op |-> "job_check", job |-> job, ret |-> QDMI_ERROR_INVALIDARGUMENT, status |-> status]
       ELSE last' = [op |-> "job_check", job |-> job, ret |-> QDMI_SUCCESS, status |-> Store(status, StatusReported(jobs[job]))]
  /\ UNCHANGED <<device_init_refcount, sessions, jobs, payloads>>

\* the timeouts the host waits with: a poll, and a long wait
Timeouts == {0, 60000}

\* variant with the fault of a wait that blocks for the whole of a timeout
\* that is not zero and then reports it as passed
WaitStatus_sleeps(status, timeout_ms) == IF timeout_ms = 0 THEN QDMI_SUCCESS ELSE QDMI_ERROR_TIMEOUT

\* (void)timeout_ms; return QDMI_SUCCESS: the status wait returns for a job
\* in `status`; the handler reads neither the job's status nor the timeout
WaitStatus(status, timeout_ms) == QDMI_SUCCESS

\* the handler has no loop and no sleep: from call to return it is one step
MOCK_QDMI_device_job_wait ==
  /\ Idle
  /\ \E job \in LiveJobs \cup {NULL}, timeout_ms \in Timeouts :
       last' = [op |-> "job_wait", job |-> job, timeout_ms |-> timeout_ms, ret |-> IF job = NULL THEN QDMI_ERROR_INVALIDARGUMENT ELSE WaitStatus(jobs[job].status, timeout_ms), status_before |-> StatusOf(job)]
  /\ UNCHANGED <<device_init_refcount, sessions, jobs, payloads>>

\* if (j->program) free(j->program), of job_free
ReleasePayload(heap, program) == IF program # NULL THEN free(heap, program) ELSE heap

\* the program pointer of the job behind a handle, for the call record
ProgramOf(job) == IF job = NULL THEN NULL ELSE jobs[job].program

MOCK_QDMI_device_job_free ==
  /\ Idle
  /\ \E job \in LiveJobs \cup {NULL} :
       /\ jobs' = IF job = NULL THEN jobs ELSE [jobs EXCEPT ![job] = NoJob]
       /\ payloads' = IF job = NULL THEN payloads ELSE ReleasePayload(payloads, jobs[job].program)
       /\ last' = [op |-> "job_free", job |-> job, status_before |-> StatusOf(job), program_before |-> ProgramOf(job)]
  /\ UNCHANGED <<device_init_refcount, sessions>>

(* --------------------------- specifications --------------------------- *)
\* history: the call that returned leaves the device counters as they are
Uncounted == UNCHANGED <<inits, finals, finalized_at_zero>>

\* the calls come from one sequential host: the harness process and the
\* concurrent threads take no step
OneHost == UNCHANGED <<harness, threads>>

\* history: the call that returned was no submit and no free of a job
Unnoted == UNCHANGED submit_left

\* history: note the status the submit that returned left its job in
NoteSubmit == submit_left' = [j \in JobHandles |-> IF last'.job = j THEN jobs'[j].status ELSE submit_left[j]]

\* history: forget the submit of the job that was freed
NoteFree == submit_left' = [j \in JobHandles |-> IF last'.job = j THEN Untouched ELSE submit_left[j]]

\* one call of the host into the device, or the host's step between calls
Next ==
  \/ MOCK_QDMI_device_initialize /\ Uncounted /\ Unnoted /\ OneHost
  \/ MOCK_QDMI_device_finalize /\ Uncounted /\ Unnoted /\ OneHost
  \/ MOCK_QDMI_device_session_alloc /\ Uncounted /\ Unnoted /\ OneHost
  \/ MOCK_QDMI_device_session_init /\ Uncounted /\ Unnoted /\ OneHost
  \/ MOCK_QDMI_device_session_free /\ Uncounted /\ Unnoted /\ OneHost
  \/ MOCK_QDMI_device_session_query_device_property /\ Uncounted /\ Unnoted /\ OneHost
  \/ MOCK_QDMI_device_session_query_site_property /\ Uncounted /\ Unnoted /\ OneHost
  \/ MOCK_QDMI_device_session_query_operation_property /\ Uncounted /\ Unnoted /\ OneHost
  \/ MOCK_QDMI_device_session_create_device_job /\ Uncounted /\ Unnoted /\ OneHost
  \/ MOCK_QDMI_device_job_query_property /\ Uncounted /\ Unnoted /\ OneHost
  \/ MOCK_QDMI_device_job_submit /\ Uncounted /\ NoteSubmit /\ OneHost
  \/ MOCK_QDMI_device_job_cancel /\ Uncounted /\ Unnoted /\ OneHost
  \/ MOCK_QDMI_device_job_check /\ Uncounted /\ Unnoted /\ OneHost
  \/ MOCK_QDMI_device_job_wait /\ Uncounted /\ Unnoted /\ OneHost
  \/ MOCK_QDMI_device_job_get_results /\ Uncounted /\ Unnoted /\ OneHost
  \/ MOCK_QDMI_device_job_free /\ Uncounted /\ NoteFree /\ OneHost
  \/ host_phase2 /\ Uncounted /\ Unnoted /\ OneHost
  \/ host_return /\ Uncounted /\ Unnoted /\ OneHost

\* the device's lifecycle and its queries, driven by a sequential host; the
\* parameters of a job are left as create_device_job set them
Spec == Init /\ [][Next]_vars

\* one call of the host as in Next, or a call of one of the two
\* set-parameter entry points with a null handle
NextEntry ==
  \/ MOCK_QDMI_device_initialize /\ Uncounted /\ Unnoted /\ OneHost
  \/ MOCK_QDMI_device_finalize /\ Uncounted /\ Unnoted /\ OneHost
  \/ MOCK_QDMI_device_session_alloc /\ Uncounted /\ Unnoted /\ OneHost
  \/ MOCK_QDMI_device_session_init /\ Uncounted /\ Unnoted /\ OneHost
  \/ MOCK_QDMI_device_session_free /\ Uncounted /\ Unnoted /\ OneHost
  \/ MOCK_QDMI_device_session_query_device_property /\ Uncounted /\ Unnoted /\ OneHost
  \/ MOCK_QDMI_device_session_query_site_property /\ Uncounted /\ Unnoted /\ OneHost
  \/ MOCK_QDMI_device_session_query_operation_property /\ Uncounted /\ Unnoted /\ OneHost
  \/ MOCK_QDMI_device_session_create_device_job /\ Uncounted /\ Unnoted /\ OneHost
  \/ MOCK_QDMI_device_job_query_property /\ Uncounted /\ Unnoted /\ OneHost
  \/ MOCK_QDMI_device_job_submit /\ Uncounted /\ NoteSubmit /\ OneHost
  \/ MOCK_QDMI_device_job_cancel /\ Uncounted /\ Unnoted /\ OneHost
  \/ MOCK_QDMI_device_job_check /\ Uncounted /\ Unnoted /\ OneHost
  \/ MOCK_QDMI_device_job_wait /\ Uncounted /\ Unnoted /\ OneHost
  \/ MOCK_QDMI_device_job_get_results /\ Uncounted /\ Unnoted /\ OneHost
  \/ MOCK_QDMI_device_job_free /\ Uncounted /\ NoteFree /\ OneHost
  \/ SessionSetParameterOnNull /\ Uncounted /\ Unnoted /\ OneHost
  \/ JobSetParameterOnNull /\ Uncounted /\ Unnoted /\ OneHost
  \/ host_phase2 /\ Uncounted /\ Unnoted /\ OneHost
  \/ host_return /\ Uncounted /\ Unnoted /\ OneHost

\* every entry point of the device: the calls of Spec, and the two
\* set-parameter entry points on the null handle
SpecEntry == Init /\ [][NextEntry]_vars

\* device_initialize, counted
CountedInitialize ==
  /\ inits < MaxCalls
  /\ MOCK_QDMI_device_initialize
  /\ inits' = inits + 1
  /\ UNCHANGED <<finals, finalized_at_zero, submit_left, harness, threads>>

\* device_finalize, counted
CountedFinalize ==
  /\ finals < MaxCalls
  /\ MOCK_QDMI_device_finalize
  /\ finals' = finals + 1
  /\ finalized_at_zero' = (finalized_at_zero \/ device_init_refcount = 0)
  /\ UNCHANGED <<inits, submit_left, harness, threads>>

NextDevice ==
  \/ CountedInitialize
  \/ CountedFinalize
  \/ MOCK_QDMI_device_session_alloc /\ Uncounted /\ Unnoted /\ OneHost
  \/ MOCK_QDMI_device_session_free /\ Uncounted /\ Unnoted /\ OneHost
  \/ host_return /\ Uncounted /\ Unnoted /\ OneHost

\* the device lifecycle alone, with its calls counted
SpecDevice == Init /\ [][NextDevice]_vars

\* one call of the host that opens a session or drives a job, or the host's
\* step between calls
NextJob ==
  \/ MOCK_QDMI_device_initialize /\ Uncounted /\ Unnoted /\ OneHost
  \/ MOCK_QDMI_device_session_alloc /\ Uncounted /\ Unnoted /\ OneHost
  \/ MOCK_QDMI_device_session_init /\ Uncounted /\ Unnoted /\ OneHost
  \/ MOCK_QDMI_device_session_create_device_job /\ Uncounted /\ Unnoted /\ OneHost
  \/ MOCK_QDMI_device_job_set_parameter /\ Uncounted /\ Unnoted /\ OneHost
  \/ MOCK_QDMI_device_job_submit /\ Uncounted /\ NoteSubmit /\ OneHost
  \/ MOCK_QDMI_device_job_cancel /\ Uncounted /\ Unnoted /\ OneHost
  \/ MOCK_QDMI_device_job_check /\ Uncounted /\ Unnoted /\ OneHost
  \/ MOCK_QDMI_device_job_wait /\ Uncounted /\ Unnoted /\ OneHost
  \/ MOCK_QDMI_device_job_free /\ Uncounted /\ NoteFree /\ OneHost
  \/ host_return /\ Uncounted /\ Unnoted /\ OneHost

\* one call of the host that opens, configures or closes a session, or the
\* host's step between calls
NextSession ==
  \/ MOCK_QDMI_device_initialize /\ Uncounted /\ Unnoted /\ OneHost
  \/ MOCK_QDMI_device_session_alloc /\ Uncounted /\ Unnoted /\ OneHost
  \/ MOCK_QDMI_device_session_set_parameter /\ Uncounted /\ Unnoted /\ OneHost
  \/ MOCK_QDMI_device_session_init /\ Uncounted /\ Unnoted /\ OneHost
  \/ MOCK_QDMI_device_session_free /\ Uncounted /\ Unnoted /\ OneHost
  \/ host_return /\ Uncounted /\ Unnoted /\ OneHost

\* the session lifecycle with the session's parameters
SpecSession == Init /\ [][NextSession]_vars

\* the job interface with the jobs' parameters, on the sessions of an
\* initialised device
SpecJob == Init /\ [][NextJob]_vars

\* one call of the host that opens a session, creates a job, sets its
\* program or frees it, or the host's step between calls
NextProgram ==
  \/ MOCK_QDMI_device_initialize /\ Uncounted /\ Unnoted /\ OneHost
  \/ MOCK_QDMI_device_session_alloc /\ Uncounted /\ Unnoted /\ OneHost
  \/ MOCK_QDMI_device_session_init /\ Uncounted /\ Unnoted /\ OneHost
  \/ MOCK_QDMI_device_session_create_device_job /\ Uncounted /\ Unnoted /\ OneHost
  \/ JobSetProgram /\ Uncounted /\ Unnoted /\ OneHost
  \/ MOCK_QDMI_device_job_free /\ Uncounted /\ NoteFree /\ OneHost
  \/ host_return /\ Uncounted /\ Unnoted /\ OneHost

\* the program of a job, set by a host that may pass a null pointer for it
SpecProgram == Init /\ [][NextProgram]_vars

(* ----------------------- the two-phase helper ------------------------ *)
\* what query_device_prop_buf leaves: its status, the caller's buffer and
\* actual-size output, and the size it passed to the fill (Untouched when it
\* made no fill)
Helped(ret, buf, actual_size, fill_size) == [ret |-> ret, buf |-> buf, actual_size |-> actual_size, fill_size |-> fill_size]

\* query_device_prop_buf with the device's query_device_property as query_fn
query_device_prop_buf(session, prop, buf, buf_size, actual_size, oob) ==
  LET probe == query_device_property(session, prop, 0, NullPtr, Store(Fresh(1), 0), oob)
      needed == probe.size_ret.mem[1]
      reported == IF actual_size.null THEN actual_size ELSE Store(actual_size, needed)
      fill == query_device_property(session, prop, needed, buf, NullPtr, oob)
  IN  IF probe.ret # QDMI_SUCCESS THEN Helped(probe.ret, buf, actual_size, Untouched)
      ELSE IF ~buf.null /\ buf_size >= needed THEN Helped(fill.ret, fill.value, reported, needed)
      ELSE Helped(probe.ret, buf, reported, Untouched)

\* The buffers a caller passes for a value of n bytes: none, one of n bytes
\* and one a byte short, each with and without an actual-size output.
HelperArgs(n) ==
  {[buf |-> b, buf_size |-> sz, actual_size |-> sr] : b \in {NullPtr, Fresh(n)}, sz \in {n}, sr \in {NullPtr, Fresh(1)}}
  \cup {[buf |-> Fresh(n - 1), buf_size |-> n - 1, actual_size |-> sr] : sr \in {NullPtr, Fresh(1)}}

\* a call of the helper by the host
call_query_device_prop_buf ==
  /\ Idle
  /\ \E session \in LiveSessions \cup {NULL}, prop \in DeviceKeys :
       \E a \in HelperArgs(HostSize(DeviceProperty(prop))), oob \in Behind(DeviceProperty(prop)) :
         LET r == query_device_prop_buf(session, prop, a.buf, a.buf_size, a.actual_size, oob)
         IN  last' = [op |-> "query_device_prop_buf", session |-> session, prop |-> prop, buf_size |-> a.buf_size,
                      ret |-> r.ret, buf |-> r.buf, actual_size |-> r.actual_size, fill_size |-> r.fill_size]
  /\ UNCHANGED <<device_init_refcount, sessions, jobs, payloads>>

\* one call of the host that opens a session or queries the device through
\* the helper, or the host's step between calls
NextHelper ==
  \/ MOCK_QDMI_device_initialize /\ Uncounted /\ Unnoted /\ OneHost
  \/ MOCK_QDMI_device_session_alloc /\ Uncounted /\ Unnoted /\ OneHost
  \/ MOCK_QDMI_device_session_init /\ Uncounted /\ Unnoted /\ OneHost
  \/ call_query_device_prop_buf /\ Uncounted /\ Unnoted /\ OneHost
  \/ host_return /\ Uncounted /\ Unnoted /\ OneHost

\* the host's two-phase helper on the device's device-property query
SpecHelper == Init /\ [][NextHelper]_vars

(* ---------------------------- test harness ---------------------------- *)
\* const char *prefix = "MOCK"
PREFIX == "MOCK"

\* the base name the harness resolves for each of its function pointers
BaseNames == [init_fn |-> "QDMI_device_session_init", deinit_fn |-> "QDMI_device_session_deinit", dev_fn |-> "QDMI_device_session_query_device_property", site_fn |-> "QDMI_device_session_query_site_property", op_fn |-> "QDMI_device_session_query_operation_property"]

\* snprintf(sym, sizeof(sym), "%s_%s", prefix, base_name)
SymbolName(prefix, base_name) == prefix \o "_" \o base_name

\* The libraries argv[1] may name, by the symbols they export: any of the
\* names the harness looks up may be missing.
Libraries == SUBSET {SymbolName(PREFIX, BaseNames[Pointers[i]]) : i \in 1..Len(Pointers)}

\* dlsym(handle, sym): the symbol's address, or NULL; the message printed
\* for NULL has no effect on the result
resolve_symbol(exports, prefix, base_name) ==
  LET sym == SymbolName(prefix, base_name)
  IN  [null |-> sym \notin exports, sym |-> sym]

\* the device queries main makes through query_device_prop_buf, in order
DeviceQueries == <<"NAME", "VERSION", "QUBITSNUM", "SITES", "COUPLINGMAP", "OPERATIONS">>

\* the probe-and-fill queries of one pass of the operations loop
OperationQueries == <<"NAME", "FIDELITY", "DURATION", "QUBITSNUM">>

\* the calls of one pass of the sites loop: a probe and a fill per property
SiteCalls == <<"T1", "T1", "T2", "T2", "READOUTERROR", "READOUTERROR", "FREQUENCY", "FREQUENCY">>

\* the harness is in main at `pc`
At(pc) == harness.pc = pc

\* the function pointer main calls through at each of its call sites
PointerAt == [open |-> "init_fn", device |-> "dev_fn", operation |-> "op_fn", site |-> "site_fn", unsupported |-> "dev_fn", close |-> "deinit_fn"]

\* A call through the pointer f: control continues at `then` when the
\* pointer holds an address; a call through NULL is undefined behaviour and
\* ends the process at the call.
Through(f, then) == IF harness.fns[f].null THEN [harness EXCEPT !.pc = "crashed", !.null_call = f] ELSE then

\* ASSERT(cond, msg): counts, prints, and goes on
ASSERT(h, cond) == [h EXCEPT !.failed = @ \/ ~cond]

\* the sites loop, or what follows it when there is no site
EnterSites(h) == IF h.num_sites > 0 THEN [h EXCEPT !.pc = "site", !.iter = 1, !.k = 1, !.phase = "none"] ELSE [h EXCEPT !.pc = "unsupported", !.iter = 0, !.k = 0, !.phase = "none"]

\* the operations loop, or what follows it when there is no operation
EnterOperations(h) == IF h.num_ops > 0 THEN [h EXCEPT !.pc = "operation", !.iter = 1, !.k = 1, !.phase = "probe"] ELSE EnterSites(h)

\* dlopen(lib_path, RTLD_NOW); main returns 1 when it fails
load_library ==
  /\ At("dlopen")
  /\ \/ harness' = [harness EXCEPT !.pc = "exit", !.exit_code = 1]
     \/ \E lib \in Libraries : harness' = [harness EXCEPT !.pc = "resolve", !.exports = lib, !.k = 1]

\* the five resolve_symbol calls, one a step
resolve ==
  /\ At("resolve")
  /\ LET f == Pointers[harness.k]
         h == [harness EXCEPT !.fns[f] = resolve_symbol(harness.exports, PREFIX, BaseNames[f])]
     IN  harness' = IF harness.k < Len(Pointers) THEN [h EXCEPT !.k = @ + 1] ELSE [h EXCEPT !.pc = "assert", !.k = 0]

\* the five ASSERT(fn != NULL, ...): main goes on to open the session
\* whatever they find
assert_resolved ==
  /\ At("assert")
  /\ harness' = [ASSERT(harness, \A i \in 1..Len(Pointers) : ~harness.fns[Pointers[i]].null) EXCEPT !.pc = "open"]

\* ret = init_fn(&session), and the two ASSERTs on what it left
session_open ==
  /\ At("open")
  /\ \E ok \in BOOLEAN :
       harness' = Through(PointerAt.open, [ASSERT(harness, ok) EXCEPT !.pc = "device", !.k = 1, !.phase = "probe"])

\* the device query that follows query k, or the operations loop
NextDeviceQuery(h) == IF h.k < Len(DeviceQueries) THEN [h EXCEPT !.k = @ + 1, !.phase = "probe"] ELSE EnterOperations(h)

\* One call of query_device_prop_buf's two: the probe, which on success
\* leaves the size (for the sites and the operations, the count the loops
\* run to), and the fill, made when the probed size fits the buffer; then
\* the ASSERTs on the result.
device_query ==
  /\ At("device")
  /\ \E ok \in BOOLEAN, fits \in BOOLEAN, n \in 0..MaxIterations :
       LET sized == CASE DeviceQueries[harness.k] = "SITES" -> [harness EXCEPT !.num_sites = n]
                      [] DeviceQueries[harness.k] = "OPERATIONS" -> [harness EXCEPT !.num_ops = n]
                      [] OTHER -> harness
       IN  harness' = Through(PointerAt.device,
                        IF harness.phase = "fill" THEN NextDeviceQuery(ASSERT(harness, ok))
                        ELSE IF ~ok THEN NextDeviceQuery(ASSERT(harness, FALSE))
                        ELSE IF fits THEN [sized EXCEPT !.phase = "fill"]
                        ELSE NextDeviceQuery(ASSERT(sized, ok)))

\* the operation query that follows query k of pass iter, or the next pass,
\* or the sites loop
NextOperationQuery(h) ==
  IF h.k < Len(OperationQueries) THEN [h EXCEPT !.k = @ + 1, !.phase = "probe"]
  ELSE IF h.iter < h.num_ops THEN [h EXCEPT !.iter = @ + 1, !.k = 1, !.phase = "probe"]
  ELSE EnterSites(h)

\* one call of the operations loop: a probe, or the fill made when the
\* probe returned QDMI_SUCCESS
operation_query ==
  /\ At("operation")
  /\ \E ok \in BOOLEAN :
       harness' = Through(PointerAt.operation,
                    IF harness.phase = "probe" /\ ok THEN [harness EXCEPT !.phase = "fill"]
                    ELSE NextOperationQuery(ASSERT(harness, ok)))

\* one call of the sites loop; its results are not tested before the next
site_query ==
  /\ At("site")
  /\ \E ok \in BOOLEAN :
       harness' = Through(PointerAt.site,
                    IF harness.k < Len(SiteCalls) THEN [harness EXCEPT !.k = @ + 1]
                    ELSE IF harness.iter < harness.num_sites THEN [ASSERT(harness, ok) EXCEPT !.iter = @ + 1, !.k = 1]
                    ELSE [ASSERT(harness, ok) EXCEPT !.pc = "unsupported", !.iter = 0, !.k = 0])

\* ret = dev_fn(session, 999, 0, NULL, NULL)
unsupported_query ==
  /\ At("unsupported")
  /\ \E ok \in BOOLEAN :
       harness' = Through(PointerAt.unsupported, [ASSERT(harness, ok) EXCEPT !.pc = "close"])

\* ret = deinit_fn(session)
session_close ==
  /\ At("close")
  /\ \E ok \in BOOLEAN :
       harness' = Through(PointerAt.close, [ASSERT(harness, ok) EXCEPT !.pc = "cleanup"])

\* dlclose(handle); return tests_failed > 0 ? 1 : 0
cleanup ==
  /\ At("cleanup")
  /\ harness' = [harness EXCEPT !.pc = "exit", !.exit_code = IF harness.failed THEN 1 ELSE 0]

\* the harness runs against a library of its own; the mock device of this
\* model is not called
NoDevice == UNCHANGED <<device_init_refcount, sessions, jobs, payloads, last, inits, finals, finalized_at_zero, submit_left, threads>>

\* one step of main
NextHarness ==
  \/ load_library /\ NoDevice
  \/ resolve /\ NoDevice
  \/ assert_resolved /\ NoDevice
  \/ session_open /\ NoDevice
  \/ device_query /\ NoDevice
  \/ operation_query /\ NoDevice
  \/ site_query /\ NoDevice
  \/ unsupported_query /\ NoDevice
  \/ session_close /\ NoDevice
  \/ cleanup /\ NoDevice

\* the test harness, run on any library
SpecHarness == Init /\ [][NextHarness]_vars

(* ------------------------- concurrent callers ------------------------- *)
\* device_init_refcount is a plain static int: a thread's update of it is a
\* load, and later a store of the value computed from what was loaded.
\* Between the two, other threads run.  Concurrent unsynchronised updates
\* are a data race; the behaviours modelled are those of the loads and
\* stores in any interleaving.

\* device_init_refcount++, the load: the thread enters device_initialize
initialize_load(t) ==
  /\ threads[t].pc = "outside"
  /\ threads[t].calls < MaxThreadCalls
  /\ threads' = [threads EXCEPT ![t].pc = "initialize_store", ![t].reg = device_init_refcount]
  /\ UNCHANGED device_init_refcount

\* device_init_refcount++, the store; return QDMI_SUCCESS
initialize_store(t) ==
  /\ threads[t].pc = "initialize_store"
  /\ device_init_refcount' = RefcountAfterInitialize(threads[t].reg)
  /\ threads' = [threads EXCEPT ![t].pc = "outside", ![t].calls = @ + 1, ![t].initializes = @ + 1]

\* if (device_init_refcount > 0): the thread enters device_finalize, loads
\* the count and tests it; at zero the call returns QDMI_SUCCESS
finalize_test(t) ==
  /\ threads[t].pc = "outside"
  /\ threads[t].calls < MaxThreadCalls
  /\ threads' = IF device_init_refcount > 0
                THEN [threads EXCEPT ![t].pc = "finalize_load", ![t].reg = device_init_refcount]
                ELSE [threads EXCEPT ![t].calls = @ + 1]
  /\ UNCHANGED device_init_refcount

\* device_init_refcount--, the load: the build loads the count again, or
\* keeps the value it loaded for the test
finalize_load(t) ==
  /\ threads[t].pc = "finalize_load"
  /\ \E reg \in {threads[t].reg, device_init_refcount} :
       threads' = [threads EXCEPT ![t].pc = "finalize_store", ![t].reg = reg]
  /\ UNCHANGED device_init_refcount

\* device_init_refcount--, the store; return QDMI_SUCCESS
finalize_store(t) ==
  /\ threads[t].pc = "finalize_store"
  /\ device_init_refcount' = threads[t].reg - 1
  /\ threads' = [threads EXCEPT ![t].pc = "outside", ![t].calls = @ + 1, ![t].decrements = @ + 1]

\* the threads call nothing else, and no other host calls
ThreadsOnly == UNCHANGED <<sessions, jobs, payloads, last, inits, finals, finalized_at_zero, submit_left, harness>>

\* one load, test or store of one thread
NextThreads ==
  \/ \E t \in ThreadIds : initialize_load(t) /\ ThreadsOnly
  \/ \E t \in ThreadIds : initialize_store(t) /\ ThreadsOnly
  \/ \E t \in ThreadIds : finalize_test(t) /\ ThreadsOnly
  \/ \E t \in ThreadIds : finalize_load(t) /\ ThreadsOnly
  \/ \E t \in ThreadIds : finalize_store(t) /\ ThreadsOnly

\* device_initialize and device_finalize called from several threads
SpecThreads == Init /\ [][NextThreads]_vars

(* ------------------------------- claims -------------------------------- *)
\* no cell of the object behind p has been written by the callee
NothingWritten(p) == \A i \in 1..Len(p.mem) : p.mem[i] = Untouched

\* exactly the first n cells of the object behind p have been written
WrittenUpTo(p, n) == \A i \in 1..Len(p.mem) : (p.mem[i] # Untouched) <=> (i <= n)

\* the last call was a query, on a handle that is not null
QueryReturned == last.op \in QueryOps /\ last.h # NULL

\* the size, in bytes, of the value the last query is about
TrueSize == Queried(last.op, last.tok, last.key).src_size

\* The last call was a query the interface allows and the device answers:
\* a known key (and token), on a session that is ACTIVE or, for results, on
\* a job that is DONE.  The calls the lifecycle gates or the key switch
\* reject are the subject of C1, C2, C9, C13 and C24.
ValidQuery ==
  /\ QueryReturned
  /\ Queried(last.op, last.tok, last.key).supported
  /\ last.op \in {"query_device_property", "query_site_property", "query_operation_property"} => sessions[last.h].active # 0
  /\ last.op = "job_get_results" => jobs[last.h].status = QDMI_JOB_STATUS_DONE

\* the last query was a fill: a buffer, and a size that is not zero
FillReturned == ~last.value.null /\ last.size > 0

\* C1: a device-property query on a session that is allocated but not
\* initialised returns BADSTATE, whatever the key and the arguments, and
\* writes neither the buffer nor the actual-size output; on a session that
\* session_init has made active it never returns BADSTATE, and with a
\* supported key it returns SUCCESS (for a size probe or a buffer that
\* holds the value; the buffer that is too small is C6's case).
C1_DeviceQueryNeedsInit ==
  (last.op = "query_device_property" /\ last.h # NULL) =>
    /\ sessions[last.h].active = 0 =>
         /\ last.ret = QDMI_ERROR_BADSTATE
         /\ NothingWritten(last.value)
         /\ NothingWritten(last.size_ret)
    /\ sessions[last.h].active # 0 =>
         /\ last.ret # QDMI_ERROR_BADSTATE
         /\ (DeviceProperty(last.key).supported /\ ~(FillReturned /\ last.size < TrueSize)) => last.ret = QDMI_SUCCESS

\* C1 witness: a fill of the coupling map on an initialised session succeeded
C1_Witness ==
  /\ last.op = "query_device_property" /\ last.h # NULL
  /\ sessions[last.h].active # 0
  /\ last.key = QDMI_DEVICE_PROPERTY_COUPLINGMAP
  /\ FillReturned
  /\ last.ret = QDMI_SUCCESS

\* C2 (as claimed): a site-property or operation-property query with a
\* valid token on a session that is allocated but not initialised returns
\* BADSTATE, for every key.
C2_SiteAndOperationQueriesNeedInit ==
  (/\ last.op \in {"query_site_property", "query_operation_property"}
   /\ last.h # NULL
   /\ last.tok # NULL
   /\ sessions[last.h].active = 0) => last.ret = QDMI_ERROR_BADSTATE

\* C3 (as claimed): session_alloc with a non-null output slot succeeds
\* exactly when the reference count is greater than zero.
C3_AllocSucceedsIffInitialized ==
  (last.op = "session_alloc" /\ ~last.session_out.null) =>
    (last.ret = QDMI_SUCCESS <=> last.refcount > 0)

\* C3 (amended): session_alloc with a non-null output slot succeeds exactly
\* when the reference count is greater than zero and calloc returned a
\* record; then the slot holds a new, inactive session.  With the count at
\* zero it returns BADSTATE, with calloc failing OUTOFMEM, and in both cases
\* it allocates no session and leaves the slot unwritten.
C3_AllocNeedsInitializedDevice ==
  (last.op = "session_alloc" /\ ~last.session_out.null) =>
    /\ last.ret = QDMI_SUCCESS <=> (last.refcount > 0 /\ ~last.calloc_failed)
    /\ last.refcount = 0 => last.ret = QDMI_ERROR_BADSTATE
    /\ (last.refcount > 0 /\ last.calloc_failed) => last.ret = QDMI_ERROR_OUTOFMEM
    /\ last.ret # QDMI_SUCCESS => (LiveSessions = last.live_before /\ NothingWritten(last.session_out))
    /\ last.ret = QDMI_SUCCESS =>
         LET s == last.session_out.mem[1]
         IN  /\ s \in SessionHandles \ last.live_before
             /\ LiveSessions = last.live_before \cup {s}
             /\ sessions[s] = MockSession

\* C3 witness: after initialize and finalize calls that left the count at
\* zero, session_alloc with a slot returned BADSTATE
C3_Witness ==
  /\ last.op = "session_alloc" /\ ~last.session_out.null
  /\ inits > 0 /\ finals > 0
  /\ last.refcount = 0
  /\ last.ret = QDMI_ERROR_BADSTATE

\* C4: while no finalize has been called with the count at zero, the count
\* is the number of initialize calls less the number of finalize calls, so
\* n initializes and n finalizes in any order leave it at zero.
C4_BalancedCallsReturnToZero ==
  ~finalized_at_zero =>
    /\ device_init_refcount = inits - finals
    /\ inits = finals => device_init_refcount = 0

\* C4 witness: two initializes and two finalizes have returned, none of the
\* finalizes at zero
C4_Witness == inits = 2 /\ finals = 2 /\ ~finalized_at_zero /\ last.op = "device_finalize"

\* C5: the reference count is never negative, and device_finalize called
\* with the count at zero returns SUCCESS and leaves it at zero.
C5_FinalizeClampsAtZero ==
  /\ device_init_refcount >= 0
  /\ (last.op = "device_finalize" /\ last.refcount_before = 0) =>
       (last.ret = QDMI_SUCCESS /\ device_init_refcount = 0)

\* C5 witness: device_finalize has returned from a call made at count zero
C5_Witness == last.op = "device_finalize" /\ last.refcount_before = 0

\* C6: a valid query of any of the five kinds, called with a buffer and a
\* size greater than zero but smaller than the value's size, returns
\* INVALIDARGUMENT and leaves every byte of the buffer as it was.
C6_ShortBufferRejectedUnwritten ==
  (ValidQuery /\ FillReturned /\ last.size < TrueSize) =>
    (last.ret = QDMI_ERROR_INVALIDARGUMENT /\ NothingWritten(last.value))

\* C6 witness: a results query on a DONE job was given a buffer one byte
\* short
C6_Witness ==
  /\ ValidQuery /\ FillReturned /\ last.size < TrueSize
  /\ last.op = "job_get_results"

\* C7: a valid query called as a size probe (null buffer, or size zero)
\* returns SUCCESS, writes the value's size to the actual-size output when
\* there is one, and writes nothing to the buffer.
C7_ProbeReportsSizeOnly ==
  (ValidQuery /\ (last.value.null \/ last.size = 0)) =>
    /\ last.ret = QDMI_SUCCESS
    /\ ~last.size_ret.null => last.size_ret.mem = <<TrueSize>>
    /\ NothingWritten(last.value)

\* C7 witness: a probe with a buffer and size zero, and an actual-size output
C7_Witness ==
  /\ ValidQuery /\ ~last.value.null /\ last.size = 0 /\ ~last.size_ret.null
  /\ last.op = "query_site_property"

C9_ResultsNeedDone ==
  (/\ last.op = "job_get_results" /\ last.h # NULL
   /\ last.key \in {QDMI_JOB_RESULT_HISTKEYS, QDMI_JOB_RESULT_HISTVALUES}
   /\ jobs[last.h].status # QDMI_JOB_STATUS_DONE) =>
     (last.ret # QDMI_SUCCESS /\ NothingWritten(last.value))

\* C10: submit on a CREATED job returns SUCCESS and leaves the job
\* SUBMITTED or DONE (the one terminal status this device has), not
\* CREATED; a check of the job after that reports the status the submit
\* left.
C10_SubmitLeavesCreated ==
  /\ (last.op = "job_submit" /\ last.status_before = QDMI_JOB_STATUS_CREATED) =>
       /\ last.ret = QDMI_SUCCESS
       /\ jobs[last.job].status \in {QDMI_JOB_STATUS_SUBMITTED, QDMI_JOB_STATUS_DONE}
       /\ submit_left[last.job] = jobs[last.job].status
  /\ (last.op = "job_check" /\ last.job # NULL /\ ~last.status.null /\ submit_left[last.job] # Untouched) =>
       /\ last.ret = QDMI_SUCCESS
       /\ last.status.mem = <<submit_left[last.job]>>

\* C10 witness: a check of a job has returned after its submit
C10_Witness ==
  /\ last.op = "job_check" /\ last.job # NULL /\ ~last.status.null
  /\ submit_left[last.job] # Untouched

\* C11: wait on a job returns in the one step of the call, with a status and
\* the job's status as it was, for timeout 0 as for a long timeout; on a job
\* that is DONE it returns SUCCESS, whatever the timeout, and the job stays
\* DONE.
C11_WaitPollsOnce ==
  (last.op = "job_wait" /\ last.job # NULL) =>
    /\ last.ret \in {QDMI_SUCCESS, QDMI_ERROR_TIMEOUT}
    /\ jobs[last.job].status = last.status_before
    /\ last.status_before = QDMI_JOB_STATUS_DONE =>
         (last.ret = QDMI_SUCCESS /\ jobs[last.job].status = QDMI_JOB_STATUS_DONE)

\* C11 witness: a wait with the long timeout has returned on a DONE job
C11_Witness ==
  /\ last.op = "job_wait" /\ last.job # NULL
  /\ last.timeout_ms > 0
  /\ last.status_before = QDMI_JOB_STATUS_DONE

\* the live jobs whose program pointer is the block b
Owners(b) == {j \in LiveJobs : jobs[j].program = b}

\* C12: over create-device-job, set-parameter, submit and free calls, every
\* allocated payload block is the program of exactly one live job and every
\* program pointer of a job is an allocated block, so a job holds one copy
\* at most and a program set-parameter has released the copy it replaced;
\* no block is released twice; after job_free neither the job record nor
\* the payload it held is allocated; with no job alive no payload is.
C12_PayloadsOwnedOnce ==
  /\ \A b \in PayloadHandles :
       /\ payloads[b].state \in {"free", "live"}
       /\ payloads[b].state = "live" <=> Cardinality(Owners(b)) = 1
       /\ payloads[b].state = "free" <=> Owners(b) = {}
  /\ \A j \in JobHandles : ~jobs[j].live => jobs[j].program = NULL
  /\ (last.op = "job_free" /\ last.job # NULL) =>
       /\ ~jobs[last.job].live
       /\ last.program_before # NULL => payloads[last.program_before].state = "free"
  /\ LiveJobs = {} => LivePayloads = {}

\* C12 witness: job_free has returned for a DONE job that held a program
\* copy, and no job is left
C12_Witness ==
  /\ last.op = "job_free" /\ last.job # NULL
  /\ last.program_before # NULL
  /\ last.status_before = QDMI_JOB_STATUS_DONE
  /\ LiveJobs = {}

\* the device-property keys the device answers
SupportedDeviceKeys == {QDMI_DEVICE_PROPERTY_NAME, QDMI_DEVICE_PROPERTY_VERSION, QDMI_DEVICE_PROPERTY_STATUS, QDMI_DEVICE_PROPERTY_QUBITSNUM, QDMI_DEVICE_PROPERTY_SITES, QDMI_DEVICE_PROPERTY_COUPLINGMAP, QDMI_DEVICE_PROPERTY_OPERATIONS, QDMI_DEVICE_PROPERTY_DURATIONSCALEFACTOR, QDMI_DEVICE_PROPERTY_SUPPORTEDPROGRAMFORMATS}

RECURSIVE WordsIn(_)
WordsIn(mem) == IF Len(mem) < SIZEOF_WORD THEN <<>> ELSE <<FromLE(SubSeq(mem, 1, SIZEOF_WORD))>> \o WordsIn(SubSeq(mem, SIZEOF_WORD + 1, Len(mem)))

\* the last call was a fill of the device property `key` that succeeded on
\* an active session
Filled(key) ==
  /\ last.op = "query_device_property" /\ last.h # NULL
  /\ sessions[last.h].active # 0
  /\ last.key = key
  /\ FillReturned /\ last.ret = QDMI_SUCCESS

\* the words of the value the last fill wrote
Reported == WordsIn(SubSeq(last.value.mem, 1, TrueSize))

\* the site tokens a fill of the sites query on session h reports, in order
SitesReported(h) == WordsIn(query_device_property(h, QDMI_DEVICE_PROPERTY_SITES, SIZEOF_WORD * NUM_QUBITS, Fresh(SIZEOF_WORD * NUM_QUBITS), NullPtr, 0).value.mem)

\* the directed pairs in a flat sequence of tokens
PairsIn(m) == {<<m[2 * i - 1], m[2 * i]>> : i \in 1..(Len(m) \div 2)}

CallSites == DOMAIN PointerAt

\* C15 (as claimed): the harness never calls through a null function
\* pointer: it is at a call site only with the pointer of that call
\* resolved, and no call through NULL has been made.
C15_NoCallThroughNull ==
  /\ harness.null_call = "none"
  /\ harness.pc \in CallSites => ~harness.fns[PointerAt[harness.pc]].null

\* the sum of f[1] ... f[n]
RECURSIVE Total(_, _)
Total(f, n) == IF n = 0 THEN 0 ELSE f[n] + Total(f, n - 1)

\* C16 (as claimed): with device_initialize and device_finalize called from
\* several threads, the count is never negative, and once every call has
\* returned it is the number of initializes less the number of finalizes
\* that decremented.
C16_RefcountUpdateAtomic ==
  /\ device_init_refcount >= 0
  /\ (\A t \in ThreadIds : threads[t].pc = "outside") =>
       device_init_refcount = Total([t \in ThreadIds |-> threads[t].initializes], NumThreads) - Total([t \in ThreadIds |-> threads[t].decrements], NumThreads)

\* C17 (as claimed): create-device-job on a session that is allocated but
\* not initialised does not return SUCCESS and creates no job.
C17_CreateJobNeedsActiveSession ==
  (/\ last.op = "create_device_job" /\ last.session # NULL /\ ~last.job_out.null
   /\ sessions[last.session].active = 0) =>
     (last.ret # QDMI_SUCCESS /\ LiveJobs = last.live_before)

\* C18 (as claimed): wait returns SUCCESS only for a job that is in a
\* terminal state; for a job that is still CREATED or SUBMITTED when the
\* wait ends (a wait with timeout 0 on a job never submitted) it returns
\* the timeout error.
C18_WaitTimesOutOnUnfinishedJob ==
  (last.op = "job_wait" /\ last.job # NULL) =>
    /\ last.ret = QDMI_SUCCESS => jobs[last.job].status \notin {QDMI_JOB_STATUS_CREATED, QDMI_JOB_STATUS_SUBMITTED}
    /\ jobs[last.job].status \in {QDMI_JOB_STATUS_CREATED, QDMI_JOB_STATUS_SUBMITTED} => last.ret = QDMI_ERROR_TIMEOUT

\* C19 (as claimed): submit on a job that is no longer CREATED does not
\* return SUCCESS and leaves the job's status as it was; set-parameter on
\* such a job does not return SUCCESS and leaves the job as it was.
C19_SubmitAndSetOnlyWhenCreated ==
  /\ (last.op = "job_submit" /\ last.job # NULL /\ last.status_before # QDMI_JOB_STATUS_CREATED) =>
       (last.ret # QDMI_SUCCESS /\ jobs[last.job].status = last.status_before)
  /\ (last.op = "job_set_parameter" /\ last.job # NULL /\ last.status_before # QDMI_JOB_STATUS_CREATED) =>
       (last.ret # QDMI_SUCCESS /\ jobs[last.job] = last.job_before)

\* the job j is allocated and DONE
Done(j) == jobs[j].live /\ jobs[j].status = QDMI_JOB_STATUS_DONE

\* C20: a call of cancel, check, wait or get-results (as a probe, or as the
\* fill that follows one), on any job, leaves every job that is DONE
\* allocated and DONE; so does the host's step between calls.  Hence no
\* sequence of such calls moves a job out of DONE.
C20_CancelKeepsDone ==
  [][\A j \in JobHandles :
       (Done(j) /\ last'.op \in {"job_cancel", "job_check", "job_wait", "job_get_results", "none"}) => Done(j)']_vars

\* C20 witness: cancel has returned on a job that was DONE, and the job is
\* DONE
C20_Witness ==
  /\ last.op = "job_cancel" /\ last.job # NULL
  /\ last.status_before = QDMI_JOB_STATUS_DONE
  /\ Done(last.job)

\* the statuses the device defines; none of them is a cancelled one
DefinedStatuses == {QDMI_JOB_STATUS_CREATED, QDMI_JOB_STATUS_SUBMITTED, QDMI_JOB_STATUS_DONE}

\* C21 (as claimed): once cancel has returned SUCCESS on a job that was
\* CREATED or SUBMITTED, the job is in a cancelled state, one that is none
\* of CREATED, SUBMITTED and DONE, and that is the status a check of the job
\* reports.
C21_CancelMovesToCancelled ==
  (/\ last.op = "job_cancel" /\ last.job # NULL /\ last.ret = QDMI_SUCCESS
   /\ last.status_before \in {QDMI_JOB_STATUS_CREATED, QDMI_JOB_STATUS_SUBMITTED}) =>
     (/\ jobs[last.job].status \notin DefinedStatuses
      /\ StatusReported(jobs[last.job]) = jobs[last.job].status)

\* C22: a call of check, on any job and in any state of it, leaves every
\* job (status, program format, program pointer, shot count) and every
\* program payload as they were, and when it returns SUCCESS its output
\* holds the status the job had at the call; the host's step from the
\* return of a check to its next call changes none of these either.  Hence
\* a check that follows a check with no call between them reports the same
\* status.
C22_CheckIsPureRead ==
  [][/\ last'.op = "job_check" =>
          /\ jobs' = jobs /\ payloads' = payloads
          /\ last'.ret = QDMI_SUCCESS => last'.status.mem = <<jobs[last'.job].status>>
     /\ (last.op = "job_check" /\ last'.op = "none") => (jobs' = jobs /\ payloads' = payloads)]_vars

\* C22 witness: check has returned SUCCESS with DONE on a job whose format,
\* program and shot count were set
C22_Witness ==
  /\ last.op = "job_check" /\ last.ret = QDMI_SUCCESS
  /\ last.status.mem = <<QDMI_JOB_STATUS_DONE>>
  /\ jobs[last.job].program # NULL
  /\ jobs[last.job].program_format = QDMI_PROGRAM_FORMAT_QASM3
  /\ jobs[last.job].shots = 1

\* the two text parameters of a session
TextParameters == {QDMI_DEVICE_SESSION_PARAMETER_TOKEN, QDMI_DEVICE_SESSION_PARAMETER_BASEURL}

\* the array of a session record that the parameter `param` is stored in,
\* and the other one
StorageOf(s, param) == IF param = QDMI_DEVICE_SESSION_PARAMETER_TOKEN THEN s.token ELSE s.baseurl
OtherStorage(s, param) == IF param = QDMI_DEVICE_SESSION_PARAMETER_TOKEN THEN s.baseurl ELSE s.token

\* no byte was written past the end of the array, and the array holds a
\* terminated string
InBounds(text) == Len(text) <= SIZEOF_TEXT /\ \E i \in 0..(SIZEOF_TEXT - 1) : ByteAt(text, i) = 0

SessionEntryPoints == {"session_set_parameter", "session_init", "session_free", "query_device_property", "query_site_property", "query_operation_property"}
JobEntryPoints == {"job_set_parameter", "job_query_property", "job_submit", "job_cancel", "job_check", "job_wait", "job_get_results", "job_free"}

\* the call c was made with a null handle (for session_alloc, a null output
\* slot; for create-device-job, a null session or a null output slot)
OnNullHandle(c) ==
  CASE c.op \in QueryOps -> c.h = NULL
    [] c.op \in SessionEntryPoints \ QueryOps -> c.session = NULL
    [] c.op \in JobEntryPoints \ QueryOps -> c.job = NULL
    [] c.op = "session_alloc" -> c.session_out.null
    [] c.op = "create_device_job" -> c.session = NULL \/ c.job_out.null
    [] OTHER -> FALSE

\* C24: a call of any entry point with a null handle changes neither the
\* count of the device nor any session, job or payload, and, unless it is
\* one of the two free entry points (which return nothing), it returns the
\* invalid-argument error, whatever its other arguments and the state of
\* the device are.
C24_NullHandleIsInvalidArgument ==
  [][OnNullHandle(last') =>
       /\ UNCHANGED <<device_init_refcount, sessions, jobs, payloads>>
       /\ last'.op \notin {"session_free", "job_free"} => last'.ret = QDMI_ERROR_INVALIDARGUMENT]_vars

\* C24 witness: with a job allocated, job set-parameter was called with a
\* null job and a parameter the device does not know, and returned the
\* invalid-argument error
C24_Witness ==
  /\ last.op = "job_set_parameter" /\ last.job = NULL /\ last.param = UNSUPPORTED_KEY
  /\ last.ret = QDMI_ERROR_INVALIDARGUMENT
  /\ LiveJobs # {}

\* C25: a valid query that was given an actual-size output leaves the
\* value's true size in it, whether it was a probe, a fill that succeeded
\* or a fill that returned the invalid-argument error for a buffer that is
\* too small.
C25_SizeReportedOnEveryPath ==
  (ValidQuery /\ ~last.size_ret.null) => last.size_ret.mem = <<TrueSize>>

\* C25 witness: a fill of the device name with a buffer one byte short and
\* an actual-size output returned the invalid-argument error, and the
\* output holds the size of the name
C25_Witness ==
  /\ ValidQuery /\ FillReturned /\ last.size < TrueSize /\ ~last.size_ret.null
  /\ last.op = "query_device_property" /\ last.key = QDMI_DEVICE_PROPERTY_NAME
  /\ last.ret = QDMI_ERROR_INVALIDARGUMENT
  /\ last.size_ret.mem = <<Len(DEVICE_NAME)>>

\* C26 (as claimed): when query_device_prop_buf returns SUCCESS the
\* caller's buffer holds the complete value (there is a buffer, and its
\* first bytes, as many as the value has, were written); and the size it
\* passes to a fill is never larger than the caller's buffer.
C26_HelperSuccessMeansFilled ==
  last.op = "query_device_prop_buf" =>
    /\ last.ret = QDMI_SUCCESS =>
         /\ ~last.buf.null
         /\ last.buf_size >= DeviceProperty(last.prop).src_size
         /\ WrittenUpTo(last.buf, DeviceProperty(last.prop).src_size)
    /\ last.fill_size # Untouched => last.fill_size <= last.buf_size

\* C27 (as claimed): once job set-parameter has been called on a job with a
\* null value and a size that is not zero, for any key, the call has
\* returned (nothing was read through the null pointer), the job record is
\* as it was before the call, and the payload the job held is still
\* allocated with the bytes it had.
C27_NullValueIsNotRead ==
  (last.op = "job_set_parameter" /\ last.job # NULL /\ ReadsNull(last.size, last.value)) =>
    /\ ~Faulted
    /\ jobs[last.job] = last.job_before
    /\ payloads = last.payloads_before

=============================================================================
